---- MODULE Spec2Model ----
(***************************************************************************)
(* Attrition Desktop (Electron shell): the configuration store             *)
(* (configHelpers.js), the window / tray lifecycle controller (main.js)    *)
(* and the download-event-liveries pipeline (main.js).                     *)
(*                                                                         *)
(* Two specifications share the variables:                                 *)
(*   Spec         - the lifecycle controller and the configuration store;  *)
(*   SpecDownload - the download-and-extract pipeline.                     *)
(***************************************************************************)
EXTENDS Integers, Sequences, FiniteSets, TLC

VARIABLES
    phase,        \* "boot" (process launched, app not ready), "running", "exited"
    bootCause,    \* why the current process was launched: "launch" or "reset" (app.relaunch)
    platform,     \* process.platform: "darwin" or "other"
    file,         \* config.json on disk: [kind, data]
    mainWindow,   \* the controller's main view: "none", "visible", "hidden"
    mainUrl,      \* the URL the main view last loaded
    mainViews,    \* number of live main-view windows
    configWindow, \* the configuration window is open
    tray,         \* the tray icon exists
    isQuiting,    \* app.isQuiting
    last,         \* the handler that ran last: its inputs, the state it started from, its outcome
    jobs,         \* pipeline invocations: job id -> job record
    tmp,          \* temp directory: path of a temp archive -> state of the file
    customsDir,   \* the global customsDir (assigned without declaration)
    dirs          \* the directories that exist on disk

lifecycleVars == <<phase, bootCause, platform, file, mainWindow, mainUrl, mainViews,
                   configWindow, tray, isQuiting, last>>
pipelineVars == <<jobs, tmp, customsDir, dirs>>
vars == <<phase, bootCause, platform, file, mainWindow, mainUrl, mainViews,
          configWindow, tray, isQuiting, last, jobs, tmp, customsDir, dirs>>

----------------------------------------------------------------------------
(* Values *)

DefaultUrl == "https://blancpaw-gt.uk"
UrlA == "https://a.example"
UrlB == "https://b.example"
Urls == {"", UrlA}                \* URLs a renderer may submit ("" is the empty, falsy string)
NoUrl == "about:none"

DirA == "/acc/Customs"
DirB == "/old/Customs"
PickCustoms == "/pick/Customs"   \* <folder picked in the dialog>/Customs
Dirs == {DirA, DirB}
NoDir == "null"                   \* getConfiguredLiveryDirectory() returning null

Keys == {"url", "liveryDirectory", "documentsFolder", "minimizeToTray", "extra"}

EmptyRec == [k \in {} |-> ""]
Put(r, k, v) == [x \in DOMAIN r \cup {k} |-> IF x = k THEN v ELSE r[x]]
Has(r, k) == k \in DOMAIN r

\* JavaScript values a configuration may be: null or an object
\* (d: its fields with a JSON value, u: the names of its fields whose value is undefined)
JNull == [t |-> "null", d |-> EmptyRec, u |-> {}]
JObj(d) == [t |-> "object", d |-> d, u |-> {}]
JObjU(d, u) == [t |-> "object", d |-> d, u |-> u]

\* config.json: absent, not parseable, the text "null", or the text of an object
FAbsent == [kind |-> "absent", data |-> EmptyRec]
FCorrupt == [kind |-> "corrupt", data |-> EmptyRec]
FNull == [kind |-> "null", data |-> EmptyRec]
FObj(d) == [kind |-> "object", data |-> d]

RecFull == [k \in {"url", "liveryDirectory", "minimizeToTray", "extra"} |->
              CASE k = "url" -> UrlB
                [] k = "liveryDirectory" -> DirA
                [] k = "minimizeToTray" -> TRUE
                [] OTHER -> "x"]
RecLegacy == [k \in {"documentsFolder", "minimizeToTray"} |->
              IF k = "documentsFolder" THEN DirB ELSE FALSE]
RecUrlOnly == [k \in {"url"} |-> UrlB]
RecEmptyLivery == [k \in {"liveryDirectory", "documentsFolder"} |->
                     IF k = "liveryDirectory" THEN "" ELSE DirA]
RecBoth == [k \in {"liveryDirectory", "documentsFolder"} |->
              IF k = "liveryDirectory" THEN DirB ELSE DirA]

\* what a renderer may pass to save-config
ConfigInputs == {JObj(EmptyRec), JObj(RecFull), JObj(RecLegacy), JNull,
                 JObjU(RecUrlOnly, {"extra"})}
\* what config.json may hold when the process is launched
InitFiles == {FAbsent, FCorrupt, FNull, FObj(EmptyRec), FObj(RecFull), FObj(RecLegacy),
              FObj(RecUrlOnly)}

\* outcome of fs.writeFileSync / fs.unlinkSync on config.json
WriteOutcomes == {"ok", "denied"}
UnlinkOutcomes == {"ok", "denied"}
\* dialog.showMessageBoxSync: the index of the button chosen among
\* ['Minimize to Tray', 'Close Completely', 'Cancel']
Responses == {0, 1, 2}
Buttons == <<"Minimize to Tray", "Close Completely", "Cancel">>
NoChoice == "none"

----------------------------------------------------------------------------
(* Config Store (configHelpers.js) *)

existsSync(f) == f.kind # "absent"

\* (mutant) a serialisation that keeps the known fields only
StringifyKnownFields(v) ==
    IF v.t = "null" THEN FNull
    ELSE FObj([k \in DOMAIN v.d \ {"extra"} |-> v.d[k]])
\* JSON.stringify of a configuration value, as the text written to config.json: the
\* fields whose value is undefined are left out
Stringify(v) == IF v.t = "null" THEN FNull ELSE FObj(v.d)

\* fs.writeFileSync(configPath, text): the file afterwards
writeFileSync(f, text, outcome) ==
    IF outcome = "ok" THEN text ELSE f

\* readSavedConfig(): the parsed file, or {} when absent or when reading/parsing throws
readSavedConfig(f) ==
    CASE f.kind = "object" -> JObj(f.data)
      [] f.kind = "null" -> JNull
      [] OTHER -> JObj(EmptyRec)

\* (mutant) the stored URL is never used
readSavedUrlDefaultOnly(f) == DefaultUrl
\* readSavedUrl(): data.url || default; every exception (corrupt text, data === null) is caught
readSavedUrl(f) ==
    IF f.kind = "object" /\ Has(f.data, "url") /\ f.data["url"] # ""
    THEN f.data["url"]
    ELSE DefaultUrl

\* saveConfig(config): [ok |-> returned value, file |-> config.json afterwards]
saveConfig(f, config, outcome) ==
    [ok |-> outcome = "ok", file |-> writeFileSync(f, Stringify(config), outcome)]

\* the record saveUrl writes for url
SavedUrlRecord(f, url) == JObj(Put(EmptyRec, "url", url))

\* saveUrl(url)
saveUrl(f, url, outcome) == saveConfig(f, SavedUrlRecord(f, url), outcome)

\* config.<key> = value on the value readSavedConfig returned; throws a TypeError on null
CanSetField(config) == config.t = "object"
SetField(config, k, v) == JObj(Put(config.d, k, v))

\* (mutant) the preference written as a record of its own
saveMinimizeToTrayPreferenceAlone(f, b, outcome) ==
    saveConfig(f, JObj(Put(EmptyRec, "minimizeToTray", b)), outcome)
\* saveMinimizeToTrayPreference(shouldMinimize): the TypeError on null is caught, returns false
saveMinimizeToTrayPreference(f, b, outcome) ==
    LET config == readSavedConfig(f) IN
    IF CanSetField(config)
    THEN saveConfig(f, SetField(config, "minimizeToTray", b), outcome)
    ELSE [ok |-> FALSE, file |-> f]

\* app.getPath('home')
HomeDir == "/home/user"
\* getAutoDetectDocumentsPath(): a fixed path under the home directory (the form it has
\* on Windows and macOS; on Linux another fixed path, through the Steam prefix)
getAutoDetectDocumentsPath == HomeDir \o "/Documents/Assetto Corsa Competizione"
\* the auto-detected folder and its Customs subfolder
AutoDetectPaths == {getAutoDetectDocumentsPath, getAutoDetectDocumentsPath \o "/Customs"}

\* getConfiguredLiveryDirectory(): liveryDirectory || documentsFolder || null
\* (reading a field of null throws; the caller's try/catch sees it)
getConfiguredLiveryDirectory(f) ==
    LET config == readSavedConfig(f) IN
    IF Has(config.d, "liveryDirectory") /\ config.d["liveryDirectory"] # ""
    THEN config.d["liveryDirectory"]
    ELSE IF Has(config.d, "documentsFolder") /\ config.d["documentsFolder"] # ""
         THEN config.d["documentsFolder"]
         ELSE NoDir

\* validateDirectory(dirPath)
validateDirectory(d, onDisk) == d \in onDisk
\* const defaultPath = validateDirectory(autoDetectPath) ? autoDetectPath : homeDir
defaultPath(onDisk) ==
    IF validateDirectory(getAutoDetectDocumentsPath, onDisk)
    THEN getAutoDetectDocumentsPath ELSE HomeDir

----------------------------------------------------------------------------
(* Lifecycle controller (main.js): window, tray and process state *)

ViewCap == 2

\* the controller's state as one value, so that handlers that call each other compose
Cur == [main |-> mainWindow, url |-> mainUrl, views |-> mainViews, cfg |-> configWindow,
        quit |-> isQuiting, phase |-> phase, tray |-> tray, file |-> file]

\* the four window states of the controller ("Both": a main view next to the configuration window)
WindowState(main, cfg) ==
    CASE cfg /\ main = "none" -> "ConfigOnly"
      [] cfg /\ main # "none" -> "Both"
      [] ~cfg /\ main = "visible" -> "MainVisible"
      [] ~cfg /\ main = "hidden" -> "MainHidden"
      [] OTHER -> "NoWindow"

\* (mutant) a quit in which the main view's close handler still applies a stored
\* 'minimize to tray'
appQuitAppliesPreference(w) ==
    IF /\ w.main # "none" /\ w.file.kind = "object"
       /\ "minimizeToTray" \in DOMAIN w.file.data /\ w.file.data["minimizeToTray"] = TRUE
    THEN [w EXCEPT !.quit = TRUE, !.main = "hidden", !.cfg = FALSE]
    ELSE [w EXCEPT !.quit = TRUE, !.main = "none", !.url = NoUrl, !.views = 0,
                   !.cfg = FALSE, !.phase = "exited", !.tray = FALSE]
\* app.quit(): before-quit sets app.isQuiting, every window closes (the close handler
\* does not prevent it while app.isQuiting), the process ends and its tray icon with it
appQuit(w) ==
    [w EXCEPT !.quit = TRUE, !.main = "none", !.url = NoUrl, !.views = 0, !.cfg = FALSE,
              !.phase = "exited", !.tray = FALSE]

\* (mutant) on macOS the tray icon is given up with the last window
windowAllClosedDropsTray(w) ==
    IF platform # "darwin" THEN appQuit(w) ELSE [w EXCEPT !.tray = FALSE]
\* app.on('window-all-closed')
windowAllClosed(w) == IF platform # "darwin" THEN appQuit(w) ELSE w

\* the main view is gone: mainWindow.on('closed'), then window-all-closed if it was the last window
mainClosed(w) ==
    LET gone == [w EXCEPT !.main = "none", !.url = NoUrl,
                          !.views = IF @ > 0 THEN @ - 1 ELSE 0] IN
    IF ~gone.cfg /\ gone.views = 0 THEN windowAllClosed(gone) ELSE gone

\* configWindow.on('closed')
configClosed(w) ==
    LET gone == [w EXCEPT !.cfg = FALSE] IN
    IF gone.main = "none" /\ gone.views = 0 THEN appQuit(gone) ELSE gone

\* createMainWindow(): a new visible main view loading readSavedUrl()
createMainWindow(w) ==
    [w EXCEPT !.main = "visible", !.url = readSavedUrl(w.file),
              !.views = IF @ < ViewCap THEN @ + 1 ELSE @]

\* (mutant) a reload done by opening another main view
reloadMainAsNewView(w) ==
    [w EXCEPT !.main = "visible", !.url = readSavedUrl(w.file),
              !.views = IF @ < ViewCap THEN @ + 1 ELSE @]
\* mainWindow.loadURL(readSavedUrl()) on the existing main view
reloadMain(w) == [w EXCEPT !.url = readSavedUrl(w.file)]

\* (mutant) the preference tested for truthiness instead of presence
HasMinimizePreferenceTruthy(config) ==
    Has(config.d, "minimizeToTray") /\ config.d["minimizeToTray"]
\* 'minimizeToTray' in config (a TypeError when config is null)
HasMinimizePreference(config) == Has(config.d, "minimizeToTray")

\* the branch of mainWindow.on('close') taken when a preference is stored
ApplyPreference(w, pref) ==
    IF pref
    THEN [w EXCEPT !.main = "hidden"]
    ELSE mainClosed([w EXCEPT !.quit = TRUE])

\* newConfig = readSavedConfig(); newConfig.minimizeToTray = b
ChoiceRecord(newConfig, b) == SetField(newConfig, "minimizeToTray", b)

\* (mutant) Cancel treated as 'Close Completely' without saving
ApplyChoiceCancelCloses(w, response, outcome) ==
    LET newConfig == readSavedConfig(w.file)
        saved(b) == saveConfig(w.file, ChoiceRecord(newConfig, b), outcome).file
    IN
    CASE response = 0 -> [w EXCEPT !.file = saved(TRUE), !.main = "hidden"]
      [] response = 1 -> mainClosed([w EXCEPT !.file = saved(FALSE), !.quit = TRUE])
      [] OTHER -> mainClosed([w EXCEPT !.quit = TRUE])
\* the branch of mainWindow.on('close') taken when no preference is stored: the choice
\* made in the dialog is saved into the record read back, then acted on
ApplyChoice(w, response, outcome) ==
    LET newConfig == readSavedConfig(w.file)
        saved(b) == saveConfig(w.file, ChoiceRecord(newConfig, b), outcome).file
    IN
    CASE response = 0 -> [w EXCEPT !.file = saved(TRUE), !.main = "hidden"]
      [] response = 1 -> mainClosed([w EXCEPT !.file = saved(FALSE), !.quit = TRUE])
      [] OTHER -> w

\* mainWindow.on('close') and what follows it: [w |-> the state afterwards,
\* prompted |-> the dialog was shown, choice |-> the button chosen, threw |-> the handler faulted].
\* A close that is not prevented (app.isQuiting, or the handler faulting before
\* preventDefault) closes the window.
closeHandler(w, response, outcome) ==
    LET config == readSavedConfig(w.file) IN
    CASE w.quit ->
           [w |-> mainClosed(w), prompted |-> FALSE, choice |-> NoChoice, threw |-> FALSE]
      [] ~w.quit /\ config.t = "null" ->
           [w |-> mainClosed(w), prompted |-> FALSE, choice |-> NoChoice, threw |-> TRUE]
      [] ~w.quit /\ config.t # "null" /\ HasMinimizePreference(config) ->
           [w |-> ApplyPreference(w, config.d["minimizeToTray"]),
            prompted |-> FALSE, choice |-> NoChoice, threw |-> FALSE]
      [] OTHER ->
           [w |-> ApplyChoice(w, response, outcome),
            prompted |-> TRUE, choice |-> Buttons[response + 1], threw |-> FALSE]

\* the close handler shows its dialog: not quitting, a record without the preference
ClosePrompts(w) ==
    /\ ~w.quit
    /\ readSavedConfig(w.file).t # "null"
    /\ ~HasMinimizePreference(readSavedConfig(w.file))
\* the answers and write outcomes that matter to a close from w
CloseResponses(w) == IF ClosePrompts(w) THEN Responses ELSE {2}
CloseWrites(w, response) == IF ClosePrompts(w) /\ response # 2 THEN WriteOutcomes ELSE {"ok"}

\* the result of selectDocumentsFolder(): {canceled: true}, {path, canceled: false} or
\* an error thrown; asked: the confirmation was shown; dirs: the directories afterwards
\* startedAt: the defaultPath the directory dialog was opened at
FolderResult(canceled, threw, path, asked, onDisk) ==
    [canceled |-> canceled, threw |-> threw, path |-> path, asked |-> asked,
     dirs |-> onDisk, startedAt |-> defaultPath(onDisk)]
NoFolderResult == FolderResult(FALSE, FALSE, NoDir, FALSE, {})
NoDialog == <<"none", TRUE, TRUE>>

\* the record of the handler that ran last
\* (from: the window state it started in; arg: the config argument of save-config;
\* flag: the shouldMinimize argument of save-minimize-to-tray-preference)
Last(op, url, ok, threw, prompted, choice) ==
    [op |-> op, url |-> url, ok |-> ok, threw |-> threw, prompted |-> prompted,
     choice |-> choice, from |-> WindowState(mainWindow, configWindow), arg |-> JNull,
     flag |-> FALSE, dialog |-> NoDialog, folder |-> NoFolderResult]

\* the controller's variables take the values of w
Become(after) ==
    \E w \in {after} :
        /\ mainWindow' = w.main
        /\ mainUrl' = w.url
        /\ mainViews' = w.views
        /\ configWindow' = w.cfg
        /\ isQuiting' = w.quit
        /\ phase' = w.phase
        /\ tray' = w.tray
        /\ file' = w.file

Running == phase = "running"
\* a renderer that can send requests exists: the main view's or the configuration window's
HasRenderer == mainWindow # "none" \/ configWindow

\* the application menu can be used: a window showing it is on screen (macOS: always)
MenuAvailable == mainWindow = "visible" \/ configWindow \/ platform = "darwin"

\* the saved URL check of initializeApp: show the configuration window
StartupShowsConfigUrlOnly(f) == readSavedUrl(f) = DefaultUrl
StartupShowsConfig(f) == readSavedUrl(f) = DefaultUrl /\ ~existsSync(f)

\* app.whenReady: initializeApp (the saved URL check), createMenu, createTray
Startup ==
    /\ phase = "boot"
    /\ LET w0 == [Cur EXCEPT !.phase = "running", !.tray = TRUE]
       IN IF StartupShowsConfig(file)
          THEN Become([w0 EXCEPT !.cfg = TRUE])
          ELSE Become(createMainWindow(w0))
    /\ last' = Last("startup", NoUrl, TRUE, FALSE, FALSE, NoChoice)
    /\ UNCHANGED <<bootCause, platform, jobs, tmp, customsDir, dirs>>

\* the user closes the main view (its close button): mainWindow.on('close')
MainWindowClose ==
    /\ Running /\ mainWindow = "visible"
    /\ \E response \in CloseResponses(Cur) : \E outcome \in CloseWrites(Cur, response) :
         LET r == closeHandler(Cur, response, outcome) IN
         /\ Become(r.w)
         /\ last' = Last("close", NoUrl, TRUE, r.threw, r.prompted, r.choice)
    /\ UNCHANGED <<bootCause, platform, jobs, tmp, customsDir, dirs>>

\* the user closes the configuration window: configWindow.on('closed')
ConfigWindowClose ==
    /\ Running /\ configWindow
    /\ Become(configClosed(Cur))
    /\ last' = Last("config-close", NoUrl, TRUE, FALSE, FALSE, NoChoice)
    /\ UNCHANGED <<bootCause, platform, jobs, tmp, customsDir, dirs>>

\* ipcMain.handle('save-url')
IpcSaveUrl ==
    /\ Running /\ HasRenderer
    /\ \E url \in Urls, outcome \in WriteOutcomes :
         LET r == saveUrl(file, url, outcome)
             w1 == [Cur EXCEPT !.file = r.file]
         IN
         /\ Become(IF r.ok /\ w1.main # "none" THEN reloadMain(w1) ELSE w1)
         /\ last' = Last("save-url", url, r.ok, FALSE, FALSE, NoChoice)
    /\ UNCHANGED <<bootCause, platform, jobs, tmp, customsDir, dirs>>

\* ipcMain.handle('save-config')
IpcSaveConfig ==
    /\ Running /\ HasRenderer
    /\ \E config \in ConfigInputs, outcome \in WriteOutcomes :
         LET r == saveConfig(file, config, outcome)
             w1 == [Cur EXCEPT !.file = r.file]
         IN
         /\ Become(IF r.ok /\ w1.main # "none" THEN reloadMain(w1) ELSE w1)
         /\ last' = [Last("save-config", NoUrl, r.ok, FALSE, FALSE, NoChoice)
                        EXCEPT !.arg = config]
    /\ UNCHANGED <<bootCause, platform, jobs, tmp, customsDir, dirs>>

\* (mutant) the URL alone, as saveUrl writes it
ConfigSavedRecordNoMerge(existingConfig, url) == JObj(Put(EmptyRec, "url", url))
\* the record config-saved writes: the record read back with its url set
ConfigSavedRecord(existingConfig, url) == SetField(existingConfig, "url", url)

\* (mutant) a main view is created whether or not one exists
ConfigSavedWindowsAlwaysCreate(w) ==
    IF w.cfg THEN configClosed(createMainWindow(w)) ELSE createMainWindow(w)
\* what config-saved does to the windows once the record is saved: reload the main view
\* or create it, then close the configuration window
ConfigSavedWindows(w) ==
    LET w1 == IF w.main # "none" THEN reloadMain(w) ELSE createMainWindow(w) IN
    IF w1.cfg THEN configClosed(w1) ELSE w1

\* ipcMain.handle('config-saved'): existingConfig.url = url faults when the file holds null
IpcConfigSaved ==
    /\ Running /\ HasRenderer
    /\ \E url \in Urls, outcome \in WriteOutcomes :
         LET existingConfig == readSavedConfig(file) IN
         IF ~CanSetField(existingConfig)
         THEN /\ Become(Cur)
              /\ last' = Last("config-saved", url, FALSE, TRUE, FALSE, NoChoice)
         ELSE LET r == saveConfig(file, ConfigSavedRecord(existingConfig, url), outcome)
                  w1 == [Cur EXCEPT !.file = r.file]
              IN
              /\ Become(IF r.ok THEN ConfigSavedWindows(w1) ELSE w1)
              /\ last' = Last("config-saved", url, r.ok, FALSE, FALSE, NoChoice)
    /\ UNCHANGED <<bootCause, platform, jobs, tmp, customsDir, dirs>>

\* ipcMain.handle('save-minimize-to-tray-preference')
IpcSaveMinimizePref ==
    /\ Running /\ HasRenderer
    /\ \E b \in BOOLEAN, outcome \in WriteOutcomes :
         LET r == saveMinimizeToTrayPreference(file, b, outcome) IN
         /\ Become([Cur EXCEPT !.file = r.file])
         /\ last' = [Last("save-minimize", NoUrl, r.ok, FALSE, FALSE, NoChoice)
                        EXCEPT !.flag = b]
    /\ UNCHANGED <<bootCause, platform, jobs, tmp, customsDir, dirs>>

\* app.relaunch(); app.exit(0): this process ends and a new one is launched over the
\* configuration file as it was left
Relaunch(f) ==
    /\ phase' = "boot"
    /\ bootCause' = "reset"
    /\ file' = f
    /\ mainWindow' = "none"
    /\ mainUrl' = NoUrl
    /\ mainViews' = 0
    /\ configWindow' = FALSE
    /\ tray' = FALSE
    /\ isQuiting' = FALSE

\* fs.unlinkSync(configPath) when the file exists
unlinkConfig(f, outcome) == IF existsSync(f) /\ outcome = "ok" THEN FAbsent ELSE f
unlinkThrows(f, outcome) == existsSync(f) /\ outcome # "ok"

\* what closing the windows does in reset-config: mainWindow.close() runs the main view's
\* close handler over the file as the reset left it
ResetCloseWindows(w, response, outcome) ==
    IF w.main # "none" THEN closeHandler(w, response, outcome)
    ELSE [w |-> w, prompted |-> FALSE, choice |-> NoChoice, threw |-> FALSE]

\* ipcMain.handle('reset-config')
IpcResetConfig ==
    /\ Running /\ HasRenderer
    /\ \E unl \in UnlinkOutcomes :
         IF unlinkThrows(file, unl)
         THEN /\ Become(Cur)
              /\ bootCause' = bootCause
              /\ last' = Last("reset-config", NoUrl, FALSE, FALSE, FALSE, NoChoice)
         ELSE LET w1 == [Cur EXCEPT !.file = unlinkConfig(file, unl)] IN
              \E response \in (IF w1.main # "none" THEN CloseResponses(w1) ELSE {2}) :
              \E outcome \in CloseWrites(w1, response) :
                LET r == ResetCloseWindows(w1, response, outcome) IN
                /\ Relaunch(r.w.file)
                /\ last' = Last("reset-config", NoUrl, TRUE, r.threw, r.prompted, r.choice)
    /\ UNCHANGED <<platform, jobs, tmp, customsDir, dirs>>

\* File > Reset Config: deletes the file and relaunches without closing any window
MenuResetConfig ==
    /\ Running /\ MenuAvailable
    /\ \E unl \in UnlinkOutcomes :
         IF unlinkThrows(file, unl)
         THEN /\ Become(Cur)
              /\ bootCause' = bootCause
              /\ last' = Last("menu-reset", NoUrl, FALSE, FALSE, FALSE, NoChoice)
         ELSE /\ Relaunch(unlinkConfig(file, unl))
              /\ last' = Last("menu-reset", NoUrl, TRUE, FALSE, FALSE, NoChoice)
    /\ UNCHANGED <<platform, jobs, tmp, customsDir, dirs>>

\* (mutant) a main view is created whether or not one exists
showAppAlwaysCreates(w) == createMainWindow(w)
\* if (mainWindow) mainWindow.show(); else createMainWindow();
showApp(w) ==
    IF w.main # "none" THEN [w EXCEPT !.main = "visible"] ELSE createMainWindow(w)

\* tray 'Show App', click and double-click
TrayActivate ==
    /\ Running /\ tray
    /\ Become(showApp(Cur))
    /\ last' = Last("tray-activate", NoUrl, TRUE, FALSE, FALSE, NoChoice)
    /\ UNCHANGED <<bootCause, platform, jobs, tmp, customsDir, dirs>>

\* tray 'Exit' and File > Exit: app.quit()
ExplicitQuit ==
    /\ Running
    /\ Become(appQuit(Cur))
    /\ last' = Last("quit", NoUrl, TRUE, FALSE, FALSE, NoChoice)
    /\ UNCHANGED <<bootCause, platform, jobs, tmp, customsDir, dirs>>

\* app.on('activate') (macOS: the dock icon is clicked)
Activate ==
    /\ Running /\ platform = "darwin"
    /\ Become(IF mainViews = 0 /\ ~configWindow THEN createMainWindow(Cur)
              ELSE IF mainWindow = "hidden" THEN [Cur EXCEPT !.main = "visible"]
              ELSE Cur)
    /\ last' = Last("activate", NoUrl, TRUE, FALSE, FALSE, NoChoice)
    /\ UNCHANGED <<bootCause, platform, jobs, tmp, customsDir, dirs>>

\* Edit > Go to Home
MenuGoHome ==
    /\ Running /\ MenuAvailable
    /\ Become(IF mainWindow # "none" THEN reloadMain(Cur) ELSE createMainWindow(Cur))
    /\ last' = Last("go-home", NoUrl, TRUE, FALSE, FALSE, NoChoice)
    /\ UNCHANGED <<bootCause, platform, jobs, tmp, customsDir, dirs>>

\* what the user does in the directory dialog and in the confirmation that may follow
OpenDialogOutcomes == {"cancel", "pick", "fail"}

\* (mutant) the confirmed folder is returned without being created
selectDocumentsFolderNoMkdir(onDisk, open, confirm, mkdirOk) ==
    CASE open = "fail" -> FolderResult(FALSE, TRUE, NoDir, FALSE, onDisk)
      [] open = "cancel" -> FolderResult(TRUE, FALSE, NoDir, FALSE, onDisk)
      [] open = "pick" /\ validateDirectory(PickCustoms, onDisk) ->
           FolderResult(FALSE, FALSE, PickCustoms, FALSE, onDisk)
      [] open = "pick" /\ ~validateDirectory(PickCustoms, onDisk) /\ ~confirm ->
           FolderResult(TRUE, FALSE, NoDir, TRUE, onDisk)
      [] OTHER -> FolderResult(FALSE, FALSE, PickCustoms, TRUE, onDisk)
\* selectDocumentsFolder(): the directory dialog, the Customs test, the confirmation and
\* the mkdir
selectDocumentsFolder(onDisk, open, confirm, mkdirOk) ==
    CASE open = "fail" -> FolderResult(FALSE, TRUE, NoDir, FALSE, onDisk)
      [] open = "cancel" -> FolderResult(TRUE, FALSE, NoDir, FALSE, onDisk)
      [] open = "pick" /\ validateDirectory(PickCustoms, onDisk) ->
           FolderResult(FALSE, FALSE, PickCustoms, FALSE, onDisk)
      [] open = "pick" /\ ~validateDirectory(PickCustoms, onDisk) /\ ~confirm ->
           FolderResult(TRUE, FALSE, NoDir, TRUE, onDisk)
      [] open = "pick" /\ ~validateDirectory(PickCustoms, onDisk) /\ confirm /\ ~mkdirOk ->
           FolderResult(FALSE, TRUE, NoDir, TRUE, onDisk)
      [] OTHER ->
           FolderResult(FALSE, FALSE, PickCustoms, TRUE, onDisk \cup {PickCustoms})

\* the distinct ways the two dialogs and the mkdir can go: <<open, confirm, mkdirOk>>
DialogScenarios(onDisk) ==
    {<<"fail", TRUE, TRUE>>, <<"cancel", TRUE, TRUE>>, <<"pick", TRUE, TRUE>>}
    \cup (IF validateDirectory(PickCustoms, onDisk) THEN {}
          ELSE {<<"pick", FALSE, TRUE>>, <<"pick", TRUE, FALSE>>})

\* ipcMain.handle('select-documents-folder')
IpcSelectDocumentsFolder ==
    /\ Running /\ HasRenderer
    /\ \E sc \in DialogScenarios(dirs) :
       \E outcome \in (IF sc = <<"pick", TRUE, TRUE>> THEN WriteOutcomes ELSE {"ok"}) :
         LET result == selectDocumentsFolder(dirs, sc[1], sc[2], sc[3])
             config == readSavedConfig(file)
         IN
         /\ dirs' = result.dirs
         /\ IF result.threw \/ result.canceled
            THEN /\ Become(Cur)
                 /\ last' = [Last("select-folder", NoUrl, ~result.threw, result.threw,
                                   FALSE, NoChoice)
                               EXCEPT !.dialog = sc, !.folder = result]
            ELSE IF ~CanSetField(config)
            THEN /\ Become(Cur)
                 /\ last' = [Last("select-folder", NoUrl, FALSE, TRUE, FALSE, NoChoice)
                               EXCEPT !.dialog = sc, !.folder = result]
            ELSE /\ Become([Cur EXCEPT !.file =
                        saveConfig(file, SetField(config, "documentsFolder", result.path),
                                   outcome).file])
                 /\ last' = [Last("select-folder", NoUrl, TRUE, FALSE, FALSE, NoChoice)
                               EXCEPT !.dialog = sc, !.folder = result]
    /\ UNCHANGED <<bootCause, platform, jobs, tmp, customsDir>>

----------------------------------------------------------------------------
(* Download pipeline (main.js, ipcMain.handle('download-event-liveries')) *)

MaxRetries == 3
\* an eventId is whatever the renderer passes: two ordinary ones, and one with path
\* segments in it
TraversalSegments == <<"x", "..", "liveries_event_42">>
TraversalId == "x/../liveries_event_42"
EventIds == {"42", "77", TraversalId}
EventIdInputs == EventIds \cup {""}       \* "" : the parameter is missing
BaseUrlInputs == {UrlA, ""}
NoCookies == ""
SessionCookies == "sid=1"

\* what one HTTP attempt may come to: an error, an HTML page taken for a disguised
\* failure, or a body that is streamed to the temp file ("zip")
HttpErrors ==
    {"network-error", "Failed to download: 500", "Failed to download: 503",
     "Authentication required: 401", "Authentication required: 403", "File not found: 404"}
HtmlPages == {"html-auth", "html-home", "html-other"}   \* 2xx, text/html, length > 1000
FetchOutcomes == HttpErrors \cup HtmlPages \cup {"zip"}
NoError == "none"

\* the substrings the HTML check looks for in the body
AuthMarkers == {"redirect", "login", "401", "403", "Unauthorized"}
HomeMarkers == {"<html", "<title>", "Home"}
\* bodies a server may send, each as the set of those substrings it contains
Bodies == {{}, {"login", "<html", "<title>", "Home"}, {"<html", "<title>", "Home"},
           {"<html", "Home"}, {"Unauthorized"}}
\* the declared content-length (0: no content-length header)
ContentLengths == {0, 1000, 1001}
Statuses == {200, 401, 403, 404, 500, 503}

\* what fetch() settles with: a rejection (network error, timeout) or a response
NoResponse == [kind |-> "none", status |-> 0, html |-> FALSE, length |-> 0, body |-> {}]
Rejected == [kind |-> "rejected", status |-> 0, html |-> FALSE, length |-> 0, body |-> {}]
HttpResponse(status, html, length, body) ==
    [kind |-> "response", status |-> status, html |-> html, length |-> length, body |-> body]
FetchResponses ==
    {Rejected}
    \cup {HttpResponse(st, FALSE, 0, {}) : st \in Statuses \ {200}}
    \cup {HttpResponse(200, h, l, b) : h \in BOOLEAN, l \in ContentLengths, b \in Bodies}

\* the answer tried when invocations run side by side: a zip body (how the other
\* answers are classified does not depend on what else is in flight; an attempt can
\* still fail while its body is read)
BriefResponses == {HttpResponse(200, FALSE, 0, {})}
ResponsesFor(invocations) ==
    IF Cardinality(DOMAIN invocations) = 1 THEN FetchResponses ELSE BriefResponses
\* likewise, side by side the temp file is always written and always removable (what a
\* failed write or unlink does to its own invocation does not depend on the other one)
SinkFailuresFor(invocations, outcomes) ==
    IF Cardinality(DOMAIN invocations) = 1 THEN outcomes ELSE {}
UnlinkOutcomesFor(invocations) ==
    IF Cardinality(DOMAIN invocations) = 1 THEN UnlinkOutcomes ELSE {"ok"}

\* response.ok
responseOk(r) == r.status >= 200 /\ r.status <= 299

\* (mutant) every status reported with the generic message
StatusErrorGeneric(r) == "Failed to download: " \o ToString(r.status)
\* the message of the error thrown for a response that is not ok (without the status
\* text): 401/403, 404, any other status
StatusError(r) ==
    IF r.status = 401 \/ r.status = 403
    THEN "Authentication required: " \o ToString(r.status)
    ELSE IF r.status = 404
         THEN "File not found: " \o ToString(r.status)
         ELSE "Failed to download: " \o ToString(r.status)

\* (mutant) the length test with a higher threshold
IsSuspectHtmlOver2000(r) == r.html /\ r.length # 0 /\ r.length > 2000
\* contentType.includes('text/html') && contentLength && parseInt(contentLength) > 1000
IsSuspectHtml(r) == r.html /\ r.length # 0 /\ r.length > 1000

\* the error thrown for a suspect HTML page, from the text of its body
ClassifyHtml(body) ==
    IF body \cap AuthMarkers # {} THEN "html-auth"
    ELSE IF HomeMarkers \subseteq body THEN "html-home"
    ELSE "html-other"

\* one attempt, from what fetch settled with to the error thrown ("zip": none, the body
\* is streamed to the temp file)
FetchOutcome(r) ==
    CASE r.kind = "rejected" -> "network-error"
      [] r.kind # "rejected" /\ ~responseOk(r) -> StatusError(r)
      [] r.kind # "rejected" /\ responseOk(r) /\ IsSuspectHtml(r) -> ClassifyHtml(r.body)
      [] OTHER -> "zip"

\* const downloadUrl = `${baseUrl}/events/${eventId}/liveries`
downloadUrl(baseUrl, eventId) == baseUrl \o "/events/" \o eventId \o "/liveries"

NoMessage == [kind |-> "none", n |-> 0, inner |-> "none"]
Message(kind, n, inner) == [kind |-> kind, n |-> n, inner |-> inner]
NoResult == [returned |-> FALSE, success |-> FALSE, message |-> NoMessage,
             targetDirectory |-> NoDir]

IdleJob ==
    [pc |-> "idle", eventId |-> "", baseUrl |-> "", url |-> "", dir |-> NoDir,
     configured |-> NoDir, cookie |-> NoCookies, response |-> NoResponse,
     lastError |-> NoError, sinkFailed |-> FALSE, lookup |-> "none", headers |-> <<>>,
     prompted |-> FALSE, attempt |-> 0, fetches |-> 0, failures |-> 0, delays |-> <<>>,
     downloaded |-> FALSE, fetchesAtOk |-> 0, extractDir |-> NoDir, extracted |-> FALSE,
     result |-> NoResult, raised |-> FALSE, tmpAtReturn |-> "absent"]

\* app.getPath('temp')
TempDir == "/tmp"
\* const zipFileName = `liveries_event_${eventId}.zip`
zipFileName(eventId) == "liveries_event_" \o eventId \o ".zip"
\* the segments between the separators of a file name (of the names the eventIds of the
\* model give)
Split(name) ==
    IF name = zipFileName(TraversalId)
    THEN <<"liveries_event_" \o TraversalSegments[1], TraversalSegments[2],
           TraversalSegments[3] \o ".zip">>
    ELSE <<name>>
\* path.normalize on segments: "." is dropped, ".." takes the segment before it away
RECURSIVE normalize(_, _)
normalize(segments, out) ==
    IF segments = <<>> THEN out
    ELSE IF Head(segments) = "." THEN normalize(Tail(segments), out)
    ELSE IF Head(segments) = ".." /\ out # <<>>
         THEN normalize(Tail(segments), SubSeq(out, 1, Len(out) - 1))
         ELSE normalize(Tail(segments), Append(out, Head(segments)))
RECURSIVE joinSegments(_)
joinSegments(segments) ==
    IF Len(segments) = 1 THEN Head(segments)
    ELSE Head(segments) \o "/" \o joinSegments(Tail(segments))
\* path.join(dir, name): joined with the separator, then normalized
pathJoin(dir, name) == joinSegments(normalize(<<dir>> \o Split(name), <<>>))
\* const zipPath = path.join(tempDir, zipFileName)
zipPath(eventId) == pathJoin(TempDir, zipFileName(eventId))
\* the temp files the invocations of the model can name
ZipPaths == {zipPath(e) : e \in EventIds}

\* the state of the temp file of an invocation for eventId
tmpState(files, eventId) ==
    IF zipPath(eventId) \in DOMAIN files THEN files[zipPath(eventId)] ELSE "absent"

\* (mutant) an error that is not caught: the handler's promise rejects
OuterCatchRethrows(job, message, files) ==
    [job EXCEPT !.pc = "done", !.raised = TRUE,
                !.tmpAtReturn = tmpState(files, job.eventId)]

\* the outer catch of the handler: every error becomes {success: false, message}
OuterCatch(job, message, files) ==
    [job EXCEPT !.pc = "done",
                !.result = [returned |-> TRUE, success |-> FALSE, message |-> message,
                            targetDirectory |-> NoDir],
                !.tmpAtReturn = tmpState(files, job.eventId)]

\* return {success: true, message, targetDirectory: extractDir}
ReturnSuccess(job, files) ==
    [job EXCEPT !.pc = "done",
                !.result = [returned |-> TRUE, success |-> TRUE,
                            message |-> Message("extracted", 0, "none"),
                            targetDirectory |-> job.extractDir],
                !.tmpAtReturn = tmpState(files, job.eventId)]

\* for (attempt = 1; attempt <= maxRetries; ...): the loop goes on
LoopContinues(attempt) == attempt <= MaxRetries
\* (mutant) the last attempt recognised one attempt early
IsLastAttemptOffByOne(attempt) == attempt = MaxRetries - 1
\* if (attempt === maxRetries) in the catch
IsLastAttempt(attempt) == attempt = MaxRetries
\* const delay = Math.pow(2, attempt) * 1000
BackoffDelay(attempt) == (2 ^ attempt) * 1000

\* (mutant) the Cookie header is attached whatever the cookie string
cookieHeaderAlways(cookieString) == cookieString
\* ...(cookieString && cookieString.length > 0 ? { 'Cookie': cookieString } : {})
NoHeader == "no Cookie header"
cookieHeader(cookieString) == IF cookieString # "" THEN cookieString ELSE NoHeader

\* fetch(url, fetchOptions) is issued for the job's current attempt
IssueFetch(job) ==
    [job EXCEPT !.pc = "fetch", !.fetches = @ + 1, !.response = NoResponse,
                !.lastError = NoError, !.headers = Append(@, cookieHeader(job.cookie))]

\* downloadFileWithRetry returned; the handler goes on: extractDir = customsDir (the
\* global as it is now), fs.createReadStream(zipPath).pipe(unzipper.Extract(...))
StartExtract(job, global) ==
    [job EXCEPT !.pc = "extract", !.downloaded = TRUE, !.fetchesAtOk = job.fetches,
                !.extractDir = global]

\* the catch of one attempt: rethrow on the last attempt, else wait and go round again
AttemptFailed(job, err, files) ==
    LET failed == [job EXCEPT !.failures = @ + 1, !.lastError = err] IN
    IF IsLastAttempt(job.attempt)
    THEN OuterCatch(failed, Message("download-failed-after-attempts", MaxRetries, err), files)
    ELSE [failed EXCEPT !.pc = "backoff", !.delays = Append(@, BackoffDelay(job.attempt))]

\* the steps from the resolved directory to the first await: customsDir = documentsDir,
\* mkdirSync, the temp path, then the cookie lookup (only with a live main view) or the
\* first attempt
AfterResolve(job, dir) ==
    LET j1 == [job EXCEPT !.dir = dir] IN
    IF mainWindow # "none"
    THEN [j1 EXCEPT !.pc = "cookies"]
    ELSE IssueFetch([j1 EXCEPT !.attempt = 1])

\* (mutant) a directory picked in an earlier prompt is remembered
NeedsPromptUnlessPicked(f, onDisk) ==
    /\ PickCustoms \notin onDisk
    /\ \/ getConfiguredLiveryDirectory(f) = NoDir
       \/ ~validateDirectory(getConfiguredLiveryDirectory(f), onDisk)
\* the configured directory cannot be used as it is: none configured, or not a directory now
NeedsPrompt(f, onDisk) ==
    \/ getConfiguredLiveryDirectory(f) = NoDir
    \/ ~validateDirectory(getConfiguredLiveryDirectory(f), onDisk)

\* (mutant) only the eventId is checked
MissingParametersEventIdOnly(eventId, baseUrl) == eventId = ""
\* if (!eventId || !baseUrl)
MissingParameters(eventId, baseUrl) == eventId = "" \/ baseUrl = ""

\* the handler is invoked: validation, directory lookup, up to its first await
Invoke(j) ==
    /\ Running
    /\ jobs[j].pc \in {"idle", "done"}
    /\ \E eventId \in EventIdInputs, baseUrl \in BaseUrlInputs :
         LET job == [IdleJob EXCEPT !.eventId = eventId, !.baseUrl = baseUrl,
                                    !.url = IF MissingParameters(eventId, baseUrl) THEN ""
                                            ELSE downloadUrl(baseUrl, eventId)]
         IN
         IF MissingParameters(eventId, baseUrl)
         THEN /\ jobs' = [jobs EXCEPT ![j] = OuterCatch(job, Message("missing-parameters", 0, "none"), tmp)]
              /\ UNCHANGED <<customsDir, dirs>>
         ELSE IF readSavedConfig(file).t = "null"
         THEN /\ jobs' = [jobs EXCEPT ![j] = OuterCatch(job, Message("type-error", 0, "none"), tmp)]
              /\ UNCHANGED <<customsDir, dirs>>
         ELSE IF NeedsPrompt(file, dirs)
         THEN /\ jobs' = [jobs EXCEPT ![j] =
                    [job EXCEPT !.pc = "prompt", !.prompted = TRUE,
                                !.configured = getConfiguredLiveryDirectory(file)]]
              /\ UNCHANGED <<customsDir, dirs>>
         ELSE /\ jobs' = [jobs EXCEPT ![j] =
                    AfterResolve([job EXCEPT !.configured = getConfiguredLiveryDirectory(file)],
                                 getConfiguredLiveryDirectory(file))]
              /\ customsDir' = getConfiguredLiveryDirectory(file)
              /\ dirs' = dirs \cup {getConfiguredLiveryDirectory(file)}
    /\ UNCHANGED <<tmp>>
    /\ UNCHANGED lifecycleVars

\* await selectDocumentsFolder() comes back
PromptDone(j) ==
    /\ jobs[j].pc = "prompt"
    /\ \E sc \in DialogScenarios(dirs) :
         LET folderResult == selectDocumentsFolder(dirs, sc[1], sc[2], sc[3]) IN
         IF folderResult.threw
         THEN /\ jobs' = [jobs EXCEPT ![j] =
                    OuterCatch(jobs[j], Message("select-folder-failed", 0, "none"), tmp)]
              /\ UNCHANGED <<customsDir, dirs>>
         ELSE IF folderResult.canceled
         THEN /\ jobs' = [jobs EXCEPT ![j] =
                    OuterCatch(jobs[j], Message("no-directory-selected", 0, "none"), tmp)]
              /\ UNCHANGED <<customsDir, dirs>>
         ELSE /\ jobs' = [jobs EXCEPT ![j] = AfterResolve(jobs[j], folderResult.path)]
              /\ customsDir' = folderResult.path
              /\ dirs' = folderResult.dirs
    /\ UNCHANGED <<tmp>>
    /\ UNCHANGED lifecycleVars

\* what session.cookies.get({url: baseUrl}) comes to: cookies, none, or a rejection
CookieLookups == {"found", "empty", "failed"}
\* cookies.map(cookie => `${cookie.name}=${cookie.value}`).join('; '); the catch of a
\* failed lookup leaves cookieString as it was declared, ''
cookieStringOf(lookup) == IF lookup = "found" THEN SessionCookies ELSE NoCookies

\* await session.cookies.get(...) comes back, or throws (caught: proceed without cookies)
CookiesDone(j) ==
    /\ jobs[j].pc = "cookies"
    /\ \E lookup \in CookieLookups :
         jobs' = [jobs EXCEPT ![j] =
                    IssueFetch([jobs[j] EXCEPT !.cookie = cookieStringOf(lookup),
                                               !.lookup = lookup, !.attempt = 1])]
    /\ UNCHANGED <<tmp, customsDir, dirs>>
    /\ UNCHANGED lifecycleVars

\* the server at job.url answers the request in flight, or the request fails
ServerResponds(j) ==
    /\ jobs[j].pc = "fetch"
    /\ \E r \in ResponsesFor(jobs) :
         jobs' = [jobs EXCEPT ![j] = [jobs[j] EXCEPT !.pc = "response", !.response = r]]
    /\ UNCHANGED <<tmp, customsDir, dirs>>
    /\ UNCHANGED lifecycleVars

\* await fetch(...) comes back: an error status or an HTML page fails the attempt,
\* anything else is streamed to the temp file (createWriteStream truncates it)
FetchDone(j) ==
    /\ jobs[j].pc = "response"
    /\ LET outcome == FetchOutcome(jobs[j].response) IN
         IF outcome = "zip"
         THEN /\ jobs' = [jobs EXCEPT ![j] = [jobs[j] EXCEPT !.pc = "pump",
                                                            !.response = NoResponse]]
              /\ tmp' = [tmp EXCEPT ![zipPath(jobs[j].eventId)] = "partial"]
         ELSE /\ jobs' = [jobs EXCEPT ![j] = AttemptFailed(jobs[j], outcome, tmp)]
              /\ UNCHANGED tmp
    /\ UNCHANGED <<customsDir, dirs>>
    /\ UNCHANGED lifecycleVars

\* what a failed write to the temp file leads to. The write stream reports it as an
\* 'error' event that has no listener: pump() either has returned already (every chunk
\* was accepted into the stream's buffer) or waits for a 'drain' that never comes
SinkFailureOutcomes == {"returned", "waits"}
SinkFailed(job, outcome, global) ==
    IF outcome = "returned"
    THEN StartExtract([job EXCEPT !.sinkFailed = TRUE], global)
    ELSE [job EXCEPT !.sinkFailed = TRUE, !.pc = "hung"]

\* the temp file when pump() has returned: writer.end() was called and is not awaited,
\* so the write stream has finished ("complete") or still holds chunks it has not
\* written ("flushing") when the handler goes on
SinkStatesAtReturn == {"complete", "flushing"}

\* await pump() comes back: the body was read to its end, or reading it failed, or
\* writing it to the temp file failed (disk full)
PumpDone(j) ==
    /\ jobs[j].pc = "pump"
    /\ \/ /\ \E written \in SinkStatesAtReturn :
                tmp' = [tmp EXCEPT ![zipPath(jobs[j].eventId)] = written]
          /\ jobs' = [jobs EXCEPT ![j] = StartExtract(jobs[j], customsDir)]
       \/ /\ jobs' = [jobs EXCEPT ![j] = AttemptFailed(jobs[j], "stream-error", tmp)]
          /\ UNCHANGED tmp
       \/ /\ \E outcome \in SinkFailuresFor(jobs, SinkFailureOutcomes) :
                jobs' = [jobs EXCEPT ![j] = SinkFailed(jobs[j], outcome, customsDir)]
          /\ UNCHANGED tmp
    /\ UNCHANGED <<customsDir, dirs>>
    /\ UNCHANGED lifecycleVars

\* the backoff timer fires: attempt++ and the loop condition
BackoffDone(j) ==
    /\ jobs[j].pc = "backoff"
    /\ LET next == [jobs[j] EXCEPT !.attempt = @ + 1] IN
       jobs' = [jobs EXCEPT ![j] =
                  IF LoopContinues(next.attempt) THEN IssueFetch(next)
                  ELSE StartExtract(next, customsDir)]
    /\ UNCHANGED <<tmp, customsDir, dirs>>
    /\ UNCHANGED lifecycleVars

\* fs.unlinkSync(zipPath): throws when the file is not there or cannot be removed
unlinkSyncOk(files, eventId, unl) == tmpState(files, eventId) # "absent" /\ unl = "ok"
unlinkSync(files, eventId, unl) ==
    IF unlinkSyncOk(files, eventId, unl) THEN [files EXCEPT ![zipPath(eventId)] = "absent"]
    ELSE files

\* the extraction promise settles: 'close' (then unlink and return) or 'error' (then
\* best-effort unlink and rethrow). With no file to read the read stream's error is
\* nobody's: the promise never settles.
ExtractDone(j) ==
    /\ jobs[j].pc = "extract"
    /\ IF tmpState(tmp, jobs[j].eventId) = "absent"
       THEN /\ jobs' = [jobs EXCEPT ![j].pc = "hung"]
            /\ UNCHANGED <<tmp, dirs>>
       ELSE \E ok \in BOOLEAN, unl \in UnlinkOutcomesFor(jobs) :
            LET files == unlinkSync(tmp, jobs[j].eventId, unl)
                job == [jobs[j] EXCEPT !.extracted = ok]
            IN
            /\ tmp' = files
            /\ dirs' = IF ok THEN dirs \cup {job.extractDir} ELSE dirs
            /\ jobs' = [jobs EXCEPT ![j] =
                   IF ok /\ unlinkSyncOk(tmp, job.eventId, unl)
                   THEN ReturnSuccess(job, files)
                   ELSE OuterCatch(job, Message("extract-failed", 0,
                                       IF ok THEN "unlink-error" ELSE "zip-error"), files)]
    /\ UNCHANGED <<customsDir>>
    /\ UNCHANGED lifecycleVars

----------------------------------------------------------------------------
(* Specification of the lifecycle controller and the configuration store *)

Init ==
    /\ phase = "boot"
    /\ bootCause = "launch"
    /\ platform \in {"darwin", "other"}
    /\ file \in InitFiles
    /\ mainWindow = "none"
    /\ mainUrl = NoUrl
    /\ mainViews = 0
    /\ configWindow = FALSE
    /\ tray = FALSE
    /\ isQuiting = FALSE
    /\ last = [op |-> "none", url |-> NoUrl, ok |-> TRUE, threw |-> FALSE,
               prompted |-> FALSE, choice |-> NoChoice, from |-> "NoWindow", arg |-> JNull,
               flag |-> FALSE, dialog |-> NoDialog, folder |-> NoFolderResult]
    /\ jobs = [j \in {1} |-> IdleJob]
    /\ tmp = [p \in ZipPaths |-> "absent"]
    /\ customsDir = NoDir
    /\ dirs = {DirA} \cup AutoDetectPaths

Next ==
    \/ Startup
    \/ MainWindowClose
    \/ ConfigWindowClose
    \/ IpcSaveUrl
    \/ IpcSaveConfig
    \/ IpcConfigSaved
    \/ IpcSaveMinimizePref
    \/ IpcSelectDocumentsFolder
    \/ IpcResetConfig
    \/ MenuResetConfig
    \/ TrayActivate
    \/ ExplicitQuit
    \/ Activate
    \/ MenuGoHome

Spec == Init /\ [][Next]_vars

----------------------------------------------------------------------------
(* Specification of the download pipeline: the application is running, over a *)
(* configuration, a disk and a temp directory as they may be found            *)

DownloadFiles ==
    {FAbsent, FNull, FObj(RecFull), FObj(RecLegacy), FObj(RecBoth), FObj(RecEmptyLivery)}

InitDownload ==
    /\ phase = "running"
    /\ bootCause = "launch"
    /\ platform = "other"
    /\ file \in DownloadFiles
    /\ mainWindow \in {"none", "visible"}
    /\ mainUrl = IF mainWindow = "none" THEN NoUrl ELSE readSavedUrl(file)
    /\ mainViews = IF mainWindow = "none" THEN 0 ELSE 1
    /\ configWindow = (mainWindow = "none")
    /\ tray = TRUE
    /\ isQuiting = FALSE
    /\ last = [op |-> "startup", url |-> NoUrl, ok |-> TRUE, threw |-> FALSE,
               prompted |-> FALSE, choice |-> NoChoice, from |-> "NoWindow", arg |-> JNull,
               flag |-> FALSE, dialog |-> NoDialog, folder |-> NoFolderResult]
    /\ jobs = [j \in {1} |-> IdleJob]
    /\ \E st \in {"absent", "stale"} : tmp = [p \in ZipPaths |-> st]
    /\ customsDir = NoDir
    /\ dirs \in {{}, {DirA} \cup AutoDetectPaths, {DirA, DirB}}

NextDownload ==
    \/ \E j \in DOMAIN jobs : Invoke(j)
    \/ \E j \in DOMAIN jobs : PromptDone(j)
    \/ \E j \in DOMAIN jobs : CookiesDone(j)
    \/ \E j \in DOMAIN jobs : ServerResponds(j)
    \/ \E j \in DOMAIN jobs : FetchDone(j)
    \/ \E j \in DOMAIN jobs : PumpDone(j)
    \/ \E j \in DOMAIN jobs : BackoffDone(j)
    \/ \E j \in DOMAIN jobs : ExtractDone(j)

SpecDownload == InitDownload /\ [][NextDownload]_vars

----------------------------------------------------------------------------
(* Specification of two invocations of the pipeline side by side: the handler is *)
(* async and nothing keeps a second invocation from starting while one awaits   *)

ConcurrentJobs == {1, 2}

InitConcurrent ==
    /\ phase = "running"
    /\ bootCause = "launch"
    /\ platform = "other"
    /\ file = FObj(RecFull)
    /\ mainWindow = "none"
    /\ mainUrl = NoUrl
    /\ mainViews = 0
    /\ configWindow = TRUE
    /\ tray = TRUE
    /\ isQuiting = FALSE
    /\ last = [op |-> "startup", url |-> NoUrl, ok |-> TRUE, threw |-> FALSE,
               prompted |-> FALSE, choice |-> NoChoice, from |-> "NoWindow", arg |-> JNull,
               flag |-> FALSE, dialog |-> NoDialog, folder |-> NoFolderResult]
    /\ jobs = [j \in ConcurrentJobs |-> IdleJob]
    /\ tmp = [p \in ZipPaths |-> "absent"]
    /\ customsDir = NoDir
    /\ dirs = {}

\* outside the application the configured directory is created (a drive is mounted, the
\* game is installed): validateDirectory finds it from then on
ConfiguredDirectoryAppears ==
    /\ getConfiguredLiveryDirectory(file) \notin dirs \cup {NoDir}
    /\ dirs' = dirs \cup {getConfiguredLiveryDirectory(file)}
    /\ UNCHANGED <<jobs, tmp, customsDir>>
    /\ UNCHANGED lifecycleVars

\* with no main view there is no cookie lookup to await
NextConcurrent ==
    \/ ConfiguredDirectoryAppears
    \/ \E j \in DOMAIN jobs : Invoke(j)
    \/ \E j \in DOMAIN jobs : PromptDone(j)
    \/ \E j \in DOMAIN jobs : ServerResponds(j)
    \/ \E j \in DOMAIN jobs : FetchDone(j)
    \/ \E j \in DOMAIN jobs : PumpDone(j)
    \/ \E j \in DOMAIN jobs : BackoffDone(j)
    \/ \E j \in DOMAIN jobs : ExtractDone(j)

SpecConcurrent == InitConcurrent /\ [][NextConcurrent]_vars

----------------------------------------------------------------------------
(* Properties of the download pipeline (checked under SpecDownload) *)

\* an invocation that got as far as issuing an HTTP attempt and has returned
ReturnedAfterDownload(job) == job.pc = "done" /\ job.fetches > 0

\* C1: whenever an invocation that reached the download returns (success, download
\* failure after the retries, extraction failure), its temporary archive does not exist
C1_TempFileGoneAtReturn ==
    \A j \in DOMAIN jobs :
        ReturnedAfterDownload(jobs[j]) => jobs[j].tmpAtReturn = "absent"

\* C3: at most 3 HTTP attempts per invocation; a download that fails on every attempt
\* makes exactly 3 attempts and then returns the failure "failed after 3 attempts";
\* no attempt follows a successful one
C3_RetryBound ==
    \A j \in DOMAIN jobs :
        LET job == jobs[j] IN
        /\ job.fetches <= 3
        /\ job.downloaded => job.fetches = job.fetchesAtOk
        /\ (job.failures >= 3) => (job.pc = "done" /\ ~job.downloaded)
        /\ (ReturnedAfterDownload(job) /\ ~job.downloaded) =>
              /\ job.fetches = 3 /\ job.failures = 3
              /\ ~job.result.success
              /\ job.result.message.kind = "download-failed-after-attempts"
              /\ job.result.message.n = 3

\* C3 witness: three attempts were made, all failed, and the invocation returned the failure
C3_Witness ==
    \E j \in DOMAIN jobs :
        /\ jobs[j].pc = "done" /\ jobs[j].fetches = 3 /\ jobs[j].failures = 3
        /\ jobs[j].result.message.kind = "download-failed-after-attempts"
        /\ jobs[j].result.message.inner = "Failed to download: 500"

\* C4: the delay waited before the 2nd attempt is 1000 ms and before the 3rd 2000 ms,
\* and none is waited after the last failed attempt
C4_BackoffSchedule ==
    \A j \in DOMAIN jobs :
        LET d == jobs[j].delays IN
        /\ Len(d) <= 2
        /\ Len(d) >= 1 => d[1] = 1000
        /\ Len(d) >= 2 => d[2] = 2000

----------------------------------------------------------------------------
(* Properties of the lifecycle controller and the configuration store (under Spec) *)

\* the record f holds, as readSavedConfig returns it
RecordOf(f) == readSavedConfig(f).d

\* C2: after a successful save-url(u) the record holds u and every other field it held
C2_SaveUrlKeepsOtherFields ==
    [][(last'.op = "save-url" /\ last'.ok) =>
         (file'.kind = "object" /\ file'.data = Put(RecordOf(file), "url", last'.url))]_vars

\* C6: a process relaunched by a reset finds no configuration file, and so starts in
\* ConfigOnly
C6_ResetLeavesNoFile ==
    /\ (phase = "boot" /\ bootCause = "reset") => ~existsSync(file)
    /\ (bootCause = "reset" /\ last.op = "startup") =>
           (configWindow /\ mainWindow = "none")

\* C7: at startup the configuration window alone is created if and only if no
\* configuration file exists; in every other case the main view alone is created
C7_StartupTransition ==
    last.op = "startup" =>
        /\ configWindow <=> file.kind = "absent"
        /\ configWindow <=> mainWindow = "none"
        /\ mainWindow \in {"none", "visible"}
        /\ mainViews = (IF configWindow THEN 0 ELSE 1)
        /\ WindowState(mainWindow, configWindow) \in {"ConfigOnly", "MainVisible"}

\* C7 witness: started over a corrupt file, the main view was created
C7_Witness ==
    /\ last.op = "startup" /\ file.kind = "corrupt"
    /\ mainWindow = "visible" /\ ~configWindow

\* config-saved(u) succeeded: the windows afterwards, given the URL the main view shows
ConfigSavedOutcome(shown) ==
    /\ mainViews = 1
    /\ mainUrl = shown
    /\ ~configWindow
    /\ phase = "running"
    /\ last.from = "ConfigOnly" => mainWindow = "visible"
    /\ last.from = "MainVisible" => mainWindow = "visible"
    /\ last.from = "MainHidden" => mainWindow = "hidden"

\* C8 as stated: after a successful config-saved(u) exactly one main view exists and
\* shows u, the configuration window is closed and the process runs
C8_ConfigSavedLoadsU ==
    (last.op = "config-saved" /\ last.ok) => ConfigSavedOutcome(last.url)

\* C8 amended: the main view shows u when u is not empty, and the built-in default URL
\* when u is the empty string
C8_ConfigSavedLoadsUOrDefault ==
    (last.op = "config-saved" /\ last.ok) =>
        ConfigSavedOutcome(IF last.url = "" THEN DefaultUrl ELSE last.url)

\* C8 witness: config-saved(u) succeeded in ConfigOnly and left MainVisible showing u
C8_Witness ==
    /\ last.op = "config-saved" /\ last.ok /\ last.from = "ConfigOnly"
    /\ last.url = UrlA /\ mainUrl = UrlA
    /\ WindowState(mainWindow, configWindow) = "MainVisible"

\* C9 as stated: after a successful config-saved(u) the record is the previous one with
\* its url set to u, and readSavedUrl returns u
C9_ConfigSavedMerges ==
    [][(last'.op = "config-saved" /\ last'.ok) =>
         /\ file'.kind = "object"
         /\ file'.data = Put(RecordOf(file), "url", last'.url)
         /\ readSavedUrl(file') = last'.url]_vars

\* C9 amended: the record is the previous one with its url set to u; readSavedUrl
\* returns u when u is not empty and the built-in default URL when u is empty
C9_ConfigSavedMergesUOrDefault ==
    [][(last'.op = "config-saved" /\ last'.ok) =>
         /\ file'.kind = "object"
         /\ file'.data = Put(RecordOf(file), "url", last'.url)
         /\ readSavedUrl(file') = (IF last'.url = "" THEN DefaultUrl ELSE last'.url)]_vars

\* C9 witness: config-saved(u) succeeded over a record with other fields, all still there
C9_Witness ==
    /\ last.op = "config-saved" /\ last.ok /\ last.url = UrlA
    /\ file.kind = "object"
    /\ {"url", "liveryDirectory", "minimizeToTray", "extra"} \subseteq DOMAIN file.data
    /\ file.data["url"] = UrlA

\* a close request finds a stored preference while the process is not quitting
ClosesWithPreference ==
    /\ last'.op = "close" /\ ~isQuiting
    /\ file.kind = "object" /\ Has(file.data, "minimizeToTray")

\* C10: such a close never prompts and leaves the record as it is; a stored true hides
\* the main view and keeps it, a stored false destroys it
C10_CloseAppliesPreference ==
    [][ClosesWithPreference =>
         /\ ~last'.prompted
         /\ file' = file
         /\ file.data["minimizeToTray"] =>
               (mainWindow' = "hidden" /\ mainViews' = mainViews /\ phase' = "running")
         /\ ~file.data["minimizeToTray"] =>
               (mainWindow' = "none" /\ mainViews' = 0)]_vars

\* C10 witness: a close with minimizeToTray = true stored hid the main view unprompted
C10_Witness ==
    /\ last.op = "close" /\ ~last.prompted /\ last.from = "MainVisible"
    /\ mainWindow = "hidden" /\ phase = "running"
    /\ file.kind = "object" /\ Has(file.data, "minimizeToTray")
    /\ file.data["minimizeToTray"]

\* a close request finds no stored preference while the process is not quitting
ClosesWithoutPreference ==
    /\ last'.op = "close" /\ ~isQuiting
    /\ ~(file.kind = "object" /\ Has(file.data, "minimizeToTray"))

\* the record with the choice b merged into it, as config.json holds it
WithChoice(f, b) == FObj(Put(RecordOf(f), "minimizeToTray", b))

\* C11: a close with no stored preference is blocked and prompts; 'Minimize to Tray'
\* leaves the record with minimizeToTray = true added and the view hidden, 'Close
\* Completely' leaves the record with minimizeToTray = false added and the view destroyed;
\* either way the preference is stored afterwards, so that the next close does not prompt
C11_ChoicePersistedThenApplied ==
    [][ClosesWithoutPreference =>
         /\ last'.prompted
         /\ last'.choice = "Minimize to Tray" =>
               (file' = WithChoice(file, TRUE) /\ mainWindow' = "hidden"
                /\ mainViews' = mainViews /\ phase' = "running")
         /\ last'.choice = "Close Completely" =>
               (file' = WithChoice(file, FALSE) /\ mainWindow' = "none" /\ mainViews' = 0)
         /\ last'.choice # "Cancel" =>
               (file'.kind = "object" /\ Has(file'.data, "minimizeToTray"))]_vars

\* C12: a close with no stored preference answered with Cancel changes nothing: the view
\* stays visible, the file is not written, the quitting flag stays unset, the process
\* runs, and a further close would prompt again
C12_CancelChangesNothing ==
    [][(ClosesWithoutPreference /\ last'.choice = "Cancel") =>
         /\ last'.prompted
         /\ mainWindow = "visible" /\ mainWindow' = "visible"
         /\ file' = file
         /\ ~isQuiting' /\ phase' = "running"
         /\ UNCHANGED <<mainUrl, mainViews, configWindow, tray>>
         /\ ClosePrompts(Cur')]_vars

\* C12 witness: Cancel was chosen; the view is visible and no preference is stored
C12_Witness ==
    /\ last.op = "close" /\ last.prompted /\ last.choice = "Cancel"
    /\ mainWindow = "visible" /\ phase = "running" /\ ~isQuiting
    /\ ~Has(RecordOf(file), "minimizeToTray")

\* the main view is destroyed by a close request: 'Close Completely' was chosen, or
\* minimizeToTray = false is stored
DestroyedByClose ==
    /\ last'.op = "close" /\ ~isQuiting
    /\ \/ last'.prompted /\ last'.choice = "Close Completely"
       \/ /\ file.kind = "object" /\ Has(file.data, "minimizeToTray")
          /\ ~file.data["minimizeToTray"]

\* C13: when the main view is destroyed because 'Close Completely' was chosen or because
\* minimizeToTray = false is stored, the process terminates (the events that follow the
\* destroy end it, with no further request), on every platform, and no tray icon is left
C13_CloseCompletelyExits ==
    [][DestroyedByClose => (mainWindow' = "none" /\ phase' = "exited" /\ ~tray')]_vars

\* C14: tray activation shows the main view when one exists (from MainHidden and from
\* MainVisible the state afterwards is MainVisible) and creates no view; when none exists
\* it creates one (from NoWindow the state afterwards is MainVisible)
C14_TrayActivation ==
    [][last'.op = "tray-activate" =>
         /\ mainWindow' = "visible"
         /\ mainWindow # "none" => (mainViews' = mainViews /\ mainUrl' = mainUrl)
         /\ mainWindow = "none" =>
               (mainViews' = mainViews + 1 /\ mainUrl' = readSavedUrl(file))
         /\ last'.from \in {"MainHidden", "MainVisible", "NoWindow"} =>
               WindowState(mainWindow', configWindow') = "MainVisible"
         /\ UNCHANGED <<file, configWindow, phase, tray>>]_vars

\* C14 witness: the tray was activated in MainHidden and the one main view is visible again
C14_Witness ==
    /\ last.op = "tray-activate" /\ last.from = "MainHidden"
    /\ mainWindow = "visible" /\ mainViews = 1 /\ ~configWindow

\* a window is closed (the main view or the configuration window) and none is left
LastWindowCloses ==
    /\ last'.op \in {"close", "config-close"}
    /\ WindowState(mainWindow, configWindow) # "NoWindow"
    /\ mainWindow' = "none" /\ ~configWindow'

\* C15: when the last window closes, whichever it was, the process keeps running with its
\* tray icon on macOS and terminates on the other platforms
C15_AllWindowsClosed ==
    [][LastWindowCloses =>
         IF platform = "darwin" THEN phase' = "running" /\ tray'
         ELSE phase' = "exited"]_vars

\* a configuration value that JSON can represent as an object: every field has a value
WellFormed(c) == c.t = "object" /\ c.u = {}

C21_ReadConfigAlwaysRecord ==
    last.op \in {"close", "config-saved"} =>
        /\ readSavedConfig(file).t = "object"
        /\ ~last.threw

\* C22: save-minimize-to-tray-preference(b), when it succeeds, leaves the record with
\* minimizeToTray = b and every other field as it was; when the write fails it returns
\* false without raising and the file is as it was
C22_MinimizePreferenceMerged ==
    [][last'.op = "save-minimize" =>
         /\ ~last'.threw
         /\ last'.ok => file' = FObj(Put(RecordOf(file), "minimizeToTray", last'.flag))
         /\ ~last'.ok => file' = file]_vars

\* C22 witness: the preference was set to false over a record with a url, a livery
\* directory and an unknown field, all of them still there
C22_Witness ==
    /\ last.op = "save-minimize" /\ last.ok /\ ~last.flag
    /\ file.kind = "object"
    /\ DOMAIN file.data = {"url", "liveryDirectory", "minimizeToTray", "extra"}
    /\ ~file.data["minimizeToTray"]
    /\ file.data["url"] = UrlB /\ file.data["liveryDirectory"] = DirA

\* the requests of the message boundary that the controller model covers
BoundaryRequests ==
    {"save-url", "save-config", "config-saved", "select-folder", "reset-config",
     "save-minimize"}

\* C23: no request of the message boundary propagates a fault to its caller: each
\* completes with a result
C23_BoundaryNeverFaults ==
    last.op \in BoundaryRequests => ~last.threw

\* C25: the tray icon is created once, when the application becomes ready, and exists in
\* every state from then on while the process runs; no other handler creates or removes it
C25_TrayLifetime ==
    /\ [](phase = "running" => tray)
    /\ [](phase # "running" => ~tray)
    /\ [][(tray' # tray) =>
             \/ (tray' /\ last'.op = "startup" /\ phase = "boot")
             \/ (~tray' /\ phase' # "running")]_vars

\* C25 witness: the main view was destroyed on macOS; no window is left, the process runs
\* and the tray icon is there
C25_Witness ==
    /\ last.op = "close" /\ platform = "darwin" /\ phase = "running"
    /\ WindowState(mainWindow, configWindow) = "NoWindow"
    /\ tray

\* C26: after every handler the window state is one of NoWindow, ConfigOnly, MainVisible
\* and MainHidden: the configuration window and a main view are never open together
C26_FourWindowStates ==
    /\ WindowState(mainWindow, configWindow) \in
          {"NoWindow", "ConfigOnly", "MainVisible", "MainHidden"}
    /\ ~(configWindow /\ mainViews > 0)

\* the last handler loaded readSavedUrl() into the main view
LoadedSavedUrl == last.op \in {"startup", "go-home"} /\ mainWindow # "none"

\* C27 as stated: readSavedUrl returns the url field of the record whenever the record
\* has one, and the built-in default URL otherwise (no field, no file, corrupt file)
C27_ReadUrlStoredOrDefault ==
    LoadedSavedUrl =>
        mainUrl = (IF file.kind = "object" /\ Has(file.data, "url")
                   THEN file.data["url"] ELSE DefaultUrl)

\* C27 amended: readSavedUrl returns the url field when the record has one that is not
\* the empty string, and the built-in default URL otherwise
C27_ReadUrlNonEmptyOrDefault ==
    LoadedSavedUrl =>
        mainUrl = (IF file.kind = "object" /\ Has(file.data, "url")
                      /\ file.data["url"] # ""
                   THEN file.data["url"] ELSE DefaultUrl)

\* C27 witness: Go to Home loaded the URL stored in the record
C27_Witness ==
    /\ last.op = "go-home" /\ mainWindow = "visible"
    /\ file.kind = "object" /\ Has(file.data, "url") /\ file.data["url"] = UrlA
    /\ mainUrl = UrlA

----------------------------------------------------------------------------
(* Further properties of the download pipeline (checked under SpecDownload) *)

\* a 2xx response declaring text/html and a content length over 1000
DisguisedHtml(r) ==
    /\ r.kind = "response" /\ r.status \in 200..299
    /\ r.html /\ r.length > 1000

\* the error such a page is to be reported as, from what its body contains
DisguiseClass(body) ==
    IF \E m \in {"redirect", "login", "401", "403", "Unauthorized"} : m \in body
    THEN "html-auth"
    ELSE IF "<html" \in body /\ "<title>" \in body /\ "Home" \in body
         THEN "html-home"
         ELSE "html-other"

\* C16: a 2xx text/html response declaring more than 1000 bytes is not written to the
\* temp file and does not count as downloaded: the attempt fails with an error that is
\* authentication-required when the body has one of redirect / login / 401 / 403 /
\* Unauthorized, else server-returned-homepage when it has <html, <title> and Home, else
\* the generic HTML-instead-of-ZIP error
C16_HtmlDisguiseDetected ==
    [][\A j \in DOMAIN jobs :
         (jobs[j].pc = "response" /\ jobs'[j].pc # "response"
          /\ DisguisedHtml(jobs[j].response)) =>
             /\ tmp' = tmp
             /\ jobs'[j].pc \in {"backoff", "done"}
             /\ ~jobs'[j].downloaded /\ ~jobs'[j].extracted
             /\ jobs'[j].failures = jobs[j].failures + 1
             /\ jobs'[j].lastError = DisguiseClass(jobs[j].response.body)]_vars

\* C16 witness: a page with both a login marker and the homepage markers failed its
\* attempt as authentication-required, and the temp file was not created
C16_Witness ==
    \E j \in DOMAIN jobs :
        /\ jobs[j].pc = "backoff" /\ jobs[j].lastError = "html-auth"
        /\ DisguisedHtml(jobs[j].response)
        /\ {"login", "<html", "<title>", "Home"} \subseteq jobs[j].response.body
        /\ tmpState(tmp, jobs[j].eventId) = "absent"

\* the directory the stored record configures: liveryDirectory, else documentsFolder
ConfiguredDirectory(f) ==
    IF Has(RecordOf(f), "liveryDirectory") THEN RecordOf(f)["liveryDirectory"]
    ELSE IF Has(RecordOf(f), "documentsFolder") THEN RecordOf(f)["documentsFolder"]
    ELSE NoDir

\* job j is invoked in this step with both parameters present
InvokedWithParameters(j) ==
    /\ jobs[j].pc \in {"idle", "done"} /\ jobs'[j] # jobs[j]
    /\ jobs'[j].eventId # "" /\ jobs'[j].baseUrl # ""

\* C17: the directory prompt is shown if and only if no directory is configured or the
\* configured one is not a directory now; without a prompt the archive is fetched from
\* baseUrl/events/eventId/liveries and extracted into the configured directory; a
\* cancelled prompt fails with 'no directory selected', with no HTTP request issued and
\* no temp file created
C17_DirectoryResolution ==
    /\ [][\A j \in DOMAIN jobs : InvokedWithParameters(j) =>
            LET d == ConfiguredDirectory(file) IN
            /\ jobs'[j].prompted <=> (d = NoDir \/ d \notin dirs)
            /\ ~jobs'[j].prompted =>
                  /\ jobs'[j].dir = d
                  /\ jobs'[j].url = jobs'[j].baseUrl \o "/events/" \o jobs'[j].eventId
                                       \o "/liveries"]_vars
    /\ [][(\A j \in DOMAIN jobs : jobs'[j].fetches = 0) => tmp' = tmp]_vars
    /\ [](\A j \in DOMAIN jobs :
            /\ (jobs[j].result.success /\ ~jobs[j].prompted) =>
                  (jobs[j].extractDir = jobs[j].dir
                   /\ jobs[j].result.targetDirectory = jobs[j].dir)
            /\ jobs[j].result.message.kind = "no-directory-selected" =>
                  (jobs[j].prompted /\ jobs[j].fetches = 0 /\ ~jobs[j].result.success))

\* C18: an invocation with eventId or baseUrl missing returns {success: false} with the
\* missing-parameters message at once: no prompt, no directory created, no cookie
\* lookup, no HTTP request, no temp file
C18_ValidationFailsFast ==
    [][\A j \in DOMAIN jobs :
         (jobs[j].pc \in {"idle", "done"} /\ jobs'[j] # jobs[j]
          /\ (jobs'[j].eventId = "" \/ jobs'[j].baseUrl = "")) =>
             /\ jobs'[j].pc = "done"
             /\ jobs'[j].result.returned /\ ~jobs'[j].result.success
             /\ jobs'[j].result.message.kind = "missing-parameters"
             /\ ~jobs'[j].prompted /\ jobs'[j].dir = NoDir
             /\ jobs'[j].cookie = NoCookies /\ jobs'[j].fetches = 0
             /\ UNCHANGED <<tmp, dirs, customsDir, file>>]_vars

\* C18 witness: an invocation with its baseUrl missing returned the missing-parameters
\* failure while the configured directory does not exist, and it was not created
C18_Witness ==
    \E j \in DOMAIN jobs :
        /\ jobs[j].pc = "done" /\ jobs[j].eventId = "42" /\ jobs[j].baseUrl = ""
        /\ jobs[j].result.message.kind = "missing-parameters"
        /\ jobs[j].fetches = 0
        /\ ConfiguredDirectory(file) = DirA /\ DirA \notin dirs

\* C19: when download and extraction succeeded, the invocation returns {success: true,
\* message, targetDirectory} even if deleting the temp file failed
C19_UnlinkFailureStillSucceeds ==
    \A j \in DOMAIN jobs :
        (jobs[j].pc = "done" /\ jobs[j].downloaded /\ jobs[j].extracted) =>
            /\ jobs[j].result.success
            /\ jobs[j].result.targetDirectory = jobs[j].extractDir

\* C28: getConfiguredLiveryDirectory returns liveryDirectory when the record has it
\* (also when it has documentsFolder too), otherwise documentsFolder when the record has
\* that, otherwise nothing; it returns in every case
C28_ResolvedLiveryDirectory ==
    [][\A j \in DOMAIN jobs : InvokedWithParameters(j) =>
         /\ jobs'[j].configured = ConfiguredDirectory(file)
         /\ jobs'[j].result.message.kind # "type-error"]_vars

\* C29: when writing the downloaded bytes to the temp file fails, the invocation ends at
\* once with a failure result: it neither goes on to extraction, nor waits, nor fetches
\* again
C29_WriteFailureSurfaced ==
    \A j \in DOMAIN jobs :
        jobs[j].sinkFailed =>
            /\ jobs[j].pc = "done"
            /\ ~jobs[j].result.success
            /\ jobs[j].fetches = jobs[j].failures + 1

\* the message a response with a status outside 2xx is to be reported with
StatusMessage(status) ==
    CASE status \in {401, 403} -> "Authentication required: " \o ToString(status)
      [] status = 404 -> "File not found: " \o ToString(status)
      [] OTHER -> "Failed to download: " \o ToString(status)

\* job j takes a response with a status outside 2xx in this step
TakesErrorStatus(j) ==
    /\ jobs[j].pc = "response" /\ jobs'[j].pc # "response"
    /\ jobs[j].response.kind = "response"
    /\ jobs[j].response.status \notin 200..299

\* C30: a response with status 401 or 403 fails its attempt with 'Authentication
\* required', 404 with 'File not found', any other non-2xx status with the generic
\* 'Failed to download'; the 1st and 2nd attempt are followed by a wait and another
\* attempt, the 3rd by the result 'Failed to download after 3 attempts: <that message>'
C30_ErrorStatusRetried ==
    /\ [][\A j \in DOMAIN jobs : TakesErrorStatus(j) =>
            LET msg == StatusMessage(jobs[j].response.status) IN
            /\ jobs'[j].lastError = msg
            /\ tmp' = tmp
            /\ jobs[j].attempt < 3 =>
                  (jobs'[j].pc = "backoff" /\ ~jobs'[j].result.returned)
            /\ jobs[j].attempt >= 3 =>
                  /\ jobs'[j].pc = "done" /\ ~jobs'[j].result.success
                  /\ jobs'[j].result.message =
                        Message("download-failed-after-attempts", 3, msg)]_vars
    /\ [][\A j \in DOMAIN jobs :
            (jobs[j].pc = "backoff" /\ jobs'[j] # jobs[j]) =>
                (jobs'[j].pc = "fetch" /\ jobs'[j].fetches = jobs[j].fetches + 1
                 /\ jobs'[j].attempt = jobs[j].attempt + 1)]_vars

\* C30 witness: three attempts answered 404, the last one reported as 'File not found'
\* inside 'Failed to download after 3 attempts'
C30_Witness ==
    \E j \in DOMAIN jobs :
        /\ jobs[j].pc = "done" /\ jobs[j].fetches = 3
        /\ jobs[j].response.kind = "response" /\ jobs[j].response.status = 404
        /\ jobs[j].result.message =
              Message("download-failed-after-attempts", 3, "File not found: 404")

\* an invocation that has computed its temp path and has not returned
UsesTempFile(job) == job.pc \in {"cookies", "fetch", "response", "pump", "backoff", "extract", "hung"}

\* C24 (checked under SpecConcurrent, where a second invocation starts while one is in
\* flight): two invocations in flight have the same temp path if and only if they have
\* the same eventId, and a step of an invocation leaves the temp file of every in-flight
\* invocation with another eventId as it is
C24_TempPathPerEventId ==
    /\ [](\A i, j \in DOMAIN jobs :
            (i # j /\ UsesTempFile(jobs[i]) /\ UsesTempFile(jobs[j])) =>
                (zipPath(jobs[i].eventId) = zipPath(jobs[j].eventId)
                    <=> jobs[i].eventId = jobs[j].eventId))
    /\ [][\A i, j \in DOMAIN jobs :
            (/\ i # j /\ jobs'[i] # jobs[i] /\ jobs'[j] = jobs[j]
             /\ UsesTempFile(jobs[j])
             /\ jobs'[i].eventId # jobs[j].eventId) =>
                tmpState(tmp', jobs[j].eventId) = tmpState(tmp, jobs[j].eventId)]_vars

----------------------------------------------------------------------------
(* Further properties of the configuration store and the lifecycle controller *)

\* the select-documents-folder request handled in this step, by what the user did
SelectedFolder(open, confirm) ==
    last'.op = "select-folder" /\ last'.dialog[1] = open /\ last'.dialog[2] = confirm
    /\ last'.dialog[3]

\* C31: selectDocumentsFolder returns {canceled: true} when the directory dialog is
\* cancelled; the Customs subfolder of the pick, without a confirmation, when that
\* subfolder is a directory; otherwise it asks, and on confirmation creates the
\* subfolder and returns it, on decline returns {canceled: true} and creates nothing.
\* Every non-cancelled result is the Customs subfolder of the pick and a directory at
\* return (a failing dialog or mkdir raises and gives no result)
C31_FolderSelectionOutcomes ==
    [][/\ SelectedFolder("cancel", TRUE) =>
            (last'.folder.canceled /\ ~last'.folder.asked /\ dirs' = dirs)
       /\ (SelectedFolder("pick", TRUE) /\ PickCustoms \in dirs) =>
            (/\ ~last'.folder.canceled /\ ~last'.folder.asked
             /\ last'.folder.path = PickCustoms /\ dirs' = dirs)
       /\ (SelectedFolder("pick", TRUE) /\ PickCustoms \notin dirs) =>
            (/\ ~last'.folder.canceled /\ last'.folder.asked
             /\ last'.folder.path = PickCustoms /\ dirs' = dirs \cup {PickCustoms})
       /\ (SelectedFolder("pick", FALSE) /\ PickCustoms \notin dirs) =>
            (last'.folder.canceled /\ last'.folder.asked /\ dirs' = dirs)
       /\ (last'.op = "select-folder" /\ ~last'.folder.canceled /\ ~last'.folder.threw) =>
            (last'.folder.path = PickCustoms /\ last'.folder.path \in dirs')]_vars

\* C31 witness: the pick had no Customs subfolder, the user confirmed, the subfolder
\* was created and returned
C31_Witness ==
    /\ last.op = "select-folder" /\ last.dialog = <<"pick", TRUE, TRUE>>
    /\ last.folder.asked /\ last.folder.path = PickCustoms /\ PickCustoms \in dirs

\* C37: after select-documents-folder returned a non-cancelled result with path p,
\* getConfiguredLiveryDirectory() returns p, whatever record was stored before; after a
\* cancelled result the stored record is as it was
C37_SelectedFolderConfigured ==
    [][last'.op = "select-folder" =>
         /\ (~last'.threw /\ ~last'.folder.canceled) =>
               getConfiguredLiveryDirectory(file') = last'.folder.path
         /\ last'.folder.canceled => file' = file]_vars

\* C36: there is never more than one live main view, the controller's reference is empty
\* exactly when there is none, and a main view is created only when none exists
C36_SingleMainView ==
    /\ [](mainViews <= 1 /\ (mainWindow = "none" <=> mainViews = 0))
    /\ [][mainViews' > mainViews => (mainViews = 0 /\ mainWindow = "none")]_vars

\* C36 witness: tray activation with a hidden main view shows that view and creates none
C36_Witness ==
    /\ last.op = "tray-activate" /\ last.from = "MainHidden"
    /\ mainWindow = "visible" /\ mainViews = 1

\* C38: while the process runs and has a main view, the quitting flag is not set, so a
\* close request on that view is decided by the stored preference or the prompt
C38_QuitFlagOnlyWhenExiting ==
    (phase = "running" /\ mainWindow # "none") => ~isQuiting

\* C39: Exit (tray menu or File menu) ends the process whatever the stored preference:
\* no window is left, hidden or shown, nothing is asked and the stored record is as it was
C39_ExplicitQuitTerminates ==
    [][last'.op = "quit" =>
         /\ phase' = "exited" /\ mainWindow' = "none" /\ mainViews' = 0 /\ ~configWindow'
         /\ ~last'.prompted /\ ~last'.threw
         /\ file' = file]_vars

\* C39 witness: Exit with a visible main view and 'minimize to tray' stored: the process
\* has ended
C39_Witness ==
    /\ last.op = "quit" /\ last.from = "MainVisible" /\ phase = "exited"
    /\ file.kind = "object" /\ Has(file.data, "minimizeToTray") /\ file.data["minimizeToTray"]

----------------------------------------------------------------------------
(* Further properties of the download pipeline: cookies and directories *)

\* C32: cookies are looked up only with a live main view; whatever the lookup comes to
\* (cookies, none, a failure), the invocation goes on to its first attempt; every
\* attempt carries the Cookie header if and only if the cookie string collected before
\* the loop is non-empty, and then that same string
C32_CookiesBestEffort ==
    /\ [](\A j \in DOMAIN jobs :
            /\ jobs[j].lookup # "none" => mainWindow # "none"
            /\ jobs[j].lookup \in {"none", "empty", "failed"} => jobs[j].cookie = ""
            /\ jobs[j].lookup = "found" => jobs[j].cookie # ""
            /\ Len(jobs[j].headers) = jobs[j].fetches
            /\ \A k \in 1..Len(jobs[j].headers) :
                 /\ jobs[j].headers[k] = NoHeader <=> jobs[j].cookie = ""
                 /\ jobs[j].headers[k] # NoHeader => jobs[j].headers[k] = jobs[j].cookie)
    /\ [][\A j \in DOMAIN jobs :
            (jobs[j].pc = "cookies" /\ jobs'[j] # jobs[j]) =>
                (/\ jobs'[j].pc = "fetch" /\ jobs'[j].fetches = 1
                 /\ ~jobs'[j].result.returned /\ jobs'[j].lookup # "none")]_vars

\* C32 witness: the cookie lookup failed, the first attempt failed, the second one
\* downloaded the archive and the invocation succeeded, both attempts without a header
C32_Witness ==
    \E j \in DOMAIN jobs :
        /\ jobs[j].lookup = "failed" /\ jobs[j].result.success
        /\ jobs[j].headers = <<NoHeader, NoHeader>>

\* a directory is taken from the auto-detected documents path
FromAutoDetect(d) == d \in AutoDetectPaths

\* C33 (the dialog of the model never has the auto-detected folder picked): the
\* auto-detected documents path is never a target directory of an invocation nor a
\* directory of the stored configuration, also when it exists on disk; and an invocation
\* with both parameters and no configured directory shows the directory dialog
C33_AutoDetectAdvisory ==
    /\ [](\A j \in DOMAIN jobs :
            /\ ~FromAutoDetect(jobs[j].dir) /\ ~FromAutoDetect(jobs[j].extractDir)
            /\ ~FromAutoDetect(jobs[j].result.targetDirectory))
    /\ [](~FromAutoDetect(customsDir) /\ ~FromAutoDetect(ConfiguredDirectory(file)))
    /\ [][\A j \in DOMAIN jobs :
            (InvokedWithParameters(j) /\ ConfiguredDirectory(file) = NoDir) =>
                jobs'[j].prompted]_vars

\* C40: no step of an invocation writes the configuration file; an invocation that
\* follows one which prompted and had a directory picked, with the configured directory
\* still missing or not a directory, shows the directory dialog again
C40_DownloadLeavesConfiguration ==
    /\ [][jobs' # jobs => file' = file]_vars
    /\ [][\A j \in DOMAIN jobs :
            (/\ InvokedWithParameters(j)
             /\ jobs[j].prompted /\ jobs[j].dir = PickCustoms
             /\ (ConfiguredDirectory(file) = NoDir \/ ConfiguredDirectory(file) \notin dirs)) =>
                (jobs'[j].prompted /\ jobs'[j].pc = "prompt")]_vars

\* C40 witness: an invocation is at its directory dialog although an earlier one had a
\* directory picked and extracted into it
C40_Witness ==
    \E j \in DOMAIN jobs :
        /\ jobs[j].pc = "prompt" /\ jobs[j].fetches = 0
        /\ customsDir = PickCustoms /\ PickCustoms \in dirs
        /\ (ConfiguredDirectory(file) = NoDir \/ ConfiguredDirectory(file) \notin dirs)

----------------------------------------------------------------------------
(* Properties of invocations side by side (checked under SpecConcurrent) *)

\* C34: an invocation extracts into the directory resolved for it and reports that
\* directory as targetDirectory, whatever another invocation resolves in between
C34_TargetDirectoryPerInvocation ==
    \A j \in DOMAIN jobs :
        /\ jobs[j].extractDir # NoDir => jobs[j].extractDir = jobs[j].dir
        /\ jobs[j].result.success => jobs[j].result.targetDirectory = jobs[j].dir

\* C35: when the archive is opened for extraction after a download whose writes did not
\* fail, the write stream has finished: the whole body is in the temp file
C35_ExtractAfterSinkFinished ==
    \A j \in DOMAIN jobs :
        (jobs[j].pc = "extract" /\ ~jobs[j].sinkFailed) =>
            tmpState(tmp, jobs[j].eventId) = "complete"

====
